---- MODULE Spec2Model ----
(***************************************************************************)
(* PiPredict (src/server.js): an Express server over two MongoDB           *)
(* collections, User and Match.  Every route handler is an async function: *)
(* it runs atomically between two awaits, and every await of a database or *)
(* HTTP call is a point where other requests interleave.  A request in     *)
(* flight is a slot of procs; its pc names the call it is waiting for and  *)
(* its l* fields are the handler's local copies of the documents it read.  *)
(*                                                                         *)
(* Mongoose's save() sends only the paths the handler modified: a number   *)
(* or string that was assigned becomes $set of the locally computed value, *)
(* push() on an array becomes $push (and $inc of __v, with no condition on *)
(* __v), assigning a different array becomes $set of the whole array       *)
(* conditioned on the __v that was read (a VersionError otherwise), and a  *)
(* path whose value did not change is not sent at all.                     *)
(*                                                                         *)
(* Money: the source uses JavaScript numbers (0.5, 0.45, 0.1, pool * 0.1). *)
(* The model computes the same expressions exactly: one hundredth of a Pi  *)
(* is Cent model units, and Cent is chosen so that pool * 0.1 and the      *)
(* division by the number of winners are exact.  Rounding errors of binary *)
(* floating point are not modelled.                                        *)
(***************************************************************************)
EXTENDS Integers, Sequences, FiniteSets, TLC

\* ---------------------------------------------------------------- bounds
\* requests that may be in flight at the same time
NProcs == 2
\* requests accepted in one run of the server
MaxRequests == 3
\* scores the sports API reports are 0..MaxScore
MaxScore == 1
\* the balance, in hundredths of a Pi, every user document starts with
StartBalance == 100

\* ------------------------------------------------------ program constants
DefaultFee == 50
SubPrice == 50
DiscountPrice == 45
ReferBonus == 10

RECURSIVE Fact(_)
Fact(n) == IF n <= 1 THEN 1 ELSE n * Fact(n - 1)

\* model units per hundredth of a Pi: a multiple of 10 and of every possible
\* number of winners, so that the source's real-number arithmetic is exact
Cent == 10 * Fact(MaxRequests)

Users == {"u1", "u2"}
\* a uid no document has: User.findOne resolves to null
UserIds == Users \cup {"u0"}
MatchIds == {"nba_1", "fb_1"}
\* what the two sports APIs list between them while the server runs: one event
Feeds == {{"nba_1"}, {"fb_1"}}
\* the predictions the requests of the model send ("away" is never staked on)
Predictions == {"home", "draw"}
Fees == {DefaultFee * Cent, 25 * Cent}
\* the request bodies of the well-formed join-challenge requests
JoinInputs == Predictions \X Fees
\* bodies with a prediction that is no outcome label, a zero and a negative fee
BadJoinInputs == {<<"banana", DefaultFee * Cent>>, <<"home", 0>>, <<"home", (0 - DefaultFee) * Cent>>}
\* the dates an API gives for its event: the first listing, and a rescheduled one
FirstDate == {1}
Dates == {1, 2}
Scores == 0..MaxScore
Procs == 1..NProcs

NoMatch == [absent |-> TRUE]
NoCode == <<>>
Win10(k) == <<"WIN10_", k>>
OtherCode == <<"PROMO">>
CodeInputs == {NoCode, Win10(1), OtherCode}

\* `nba_${game.id}` / `fb_${fix.fixture.id}` and the sport stored with it
SportOf(m) == IF m = "nba_1" THEN "nba" ELSE "football"

\* ------------------------------------------------------ pure computations
StartsWithWin10(code) == Len(code) > 0 /\ code[1] = "WIN10_"

SubscribeAmount(code) ==
  IF code # NoCode /\ StartsWithWin10(code) THEN DiscountPrice * Cent ELSE SubPrice * Cent

FilterCode(codes, code) == SelectSeq(codes, LAMBDA c : c # code)

InsufficientMut(balance, amount) == FALSE
Insufficient(balance, amount) == balance < amount

NbaResult(home, visitor) == IF home > visitor THEN "home" ELSE "away"

FootballResult(home, away) ==
  IF home > away THEN "home" ELSE IF home < away THEN "away" ELSE "draw"

ResultOf(sport, h, a) == IF sport = "nba" THEN NbaResult(h, a) ELSE FootballResult(h, a)

AlreadySettledMut(match) == FALSE
AlreadySettledAlways(match) == TRUE
AlreadySettled(match) == match.result # "pending"

WinsMut(e, result) == TRUE
Wins(e, result) == e.prediction = result

Winners(entries, result) == SelectSeq(entries, LAMBDA e : Wins(e, result))

\* positions in entries of the elements Winners keeps, in order
RECURSIVE WinnerIdx(_, _, _)
WinnerIdx(entries, result, k) ==
  IF k > Len(entries) THEN <<>>
  ELSE IF Wins(entries[k], result)
       THEN <<k>> \o WinnerIdx(entries, result, k + 1)
       ELSE WinnerIdx(entries, result, k + 1)

HouseCut(pool) == pool \div 10
PayoutPerWinner(pool, n) == (pool - HouseCut(pool)) \div n

RECURSIVE SumFees(_)
SumFees(entries) ==
  IF entries = <<>> THEN 0 ELSE Head(entries).entryFee + SumFees(Tail(entries))

\* ------------------------------------------------------------------ state
VARIABLES
  users,        \* the User collection: uid -> document
  matches,      \* the Match collection: matchId -> document, or NoMatch
  procs,        \* the requests in flight
  nreq,         \* requests accepted so far
  ledger,       \* history: start balance - debits saved + credits saved, per user
  credits,      \* history: per match and entry position, payouts saved
  paid,         \* history: per match, the sum of the payouts saved
  resultWrites, \* history: per match, saves that set result
  feed,         \* the matchIds GET /matches maps the sports APIs' events to
  last          \* history: how the request that ended last ended

vars == <<users, matches, procs, nreq, ledger, credits, paid, resultWrites, feed, last>>

Idle ==
  [kind |-> "none", pc |-> "idle", user |-> "u0", match |-> "nba_1", pred |-> "home",
   fee |-> 0, code |-> NoCode, lbal |-> 0, lwins |-> 0, lrefs |-> 0, lpool |-> 0,
   lentries |-> <<>>, lresult |-> "pending", lpayout |-> 0, lcodes |-> <<>>,
   lmod |-> FALSE, lv |-> 0, lfinal |-> TRUE, i |-> 0, resp |-> "none",
   debited |-> FALSE, appended |-> FALSE, wroteResult |-> FALSE, ncredits |-> 0]

NewUser(premium) ==
  [piBalance |-> StartBalance * Cent, isPremium |-> premium, wins |-> 0,
   referrals |-> 0, discountCodes |-> <<>>, v |-> 0]

NewMatch(m, d) ==
  [sport |-> SportOf(m), date |-> d, result |-> "pending", pool |-> 0, entries |-> <<>>,
   v |-> 0]

\* findOneAndUpdate({matchId}, {matchId, sport, home, away, date}, {upsert: true})
UpsertedMut(old, m, d) == NewMatch(m, d)
Upserted(old, m, d) ==
  IF old = NoMatch THEN NewMatch(m, d) ELSE [old EXCEPT !.sport = SportOf(m), !.date = d]

Init ==
  /\ users = [u \in Users |-> NewUser(u = "u1")]
  /\ matches = [m \in MatchIds |-> NoMatch]
  /\ procs = [p \in Procs |-> Idle]
  /\ nreq = 0
  /\ ledger = [u \in Users |-> StartBalance * Cent]
  /\ credits = [m \in MatchIds |-> [k \in 1..MaxRequests |-> 0]]
  /\ paid = [m \in MatchIds |-> 0]
  /\ resultWrites = [m \in MatchIds |-> 0]
  /\ feed \in Feeds
  /\ last = Idle

\* a request that arrives takes the first free slot (the slots are alike)
Free(p) ==
  /\ nreq < MaxRequests
  /\ procs[p].pc = "idle"
  /\ \A q \in 1..(p - 1) : procs[q].pc # "idle"

\* what is kept of a request that ended: its kind, its response and what it saved
Ended(r, response) ==
  [Idle EXCEPT !.kind = r.kind, !.pc = "done", !.resp = response,
               !.debited = r.debited, !.appended = r.appended,
               !.wroteResult = r.wroteResult, !.ncredits = r.ncredits,
               !.lresult = r.lresult]

\* the request in slot p ends with response
Finish(p, r, response) ==
  /\ procs' = [procs EXCEPT ![p] = Idle]
  /\ last' = Ended(r, response)

Continue(p, r) ==
  /\ procs' = [procs EXCEPT ![p] = r]
  /\ UNCHANGED last

Ghosts == <<ledger, credits, paid, resultWrites, feed>>

\* ------------------------------------------------------- GET /matches
\* the upsert loop for the event of the feeds, listed with date d
MatchesUpsert(m, d) ==
  /\ m \in feed
  /\ matches' = [matches EXCEPT ![m] = Upserted(@, m, d)]
  /\ last' = [Idle EXCEPT !.kind = "matches", !.pc = "done",
                          !.resp = IF matches[m] = NoMatch THEN "created" ELSE "refreshed"]
  /\ UNCHANGED <<users, procs, nreq, Ghosts>>

\* ------------------------------------------------- POST /join-challenge
JoinFindUser(p, u, m, pred, fee) ==
  /\ Free(p)
  /\ nreq' = nreq + 1
  /\ LET r == [Idle EXCEPT !.kind = "join", !.user = u, !.match = m,
                           !.pred = pred, !.fee = fee]
     IN IF u \notin Users \/ ~users[u].isPremium
        THEN Finish(p, r, "Premium required")
        ELSE Continue(p, [r EXCEPT !.pc = "j_findMatch", !.lbal = users[u].piBalance])
  /\ UNCHANGED <<users, matches, Ghosts>>

JoinFindMatch(p) ==
  LET r == procs[p] IN
  /\ r.pc = "j_findMatch"
  /\ IF matches[r.match] = NoMatch \/ matches[r.match].result # "pending"
     THEN Finish(p, r, "Invalid match")
     ELSE IF Insufficient(r.lbal, r.fee)
     THEN Finish(p, r, "Insufficient balance")
     ELSE Continue(p, [r EXCEPT !.pc = "j_saveUser", !.lbal = r.lbal - r.fee,
                                !.lpool = matches[r.match].pool])
  /\ UNCHANGED <<users, matches, nreq, Ghosts>>

JoinSaveUser(p) ==
  LET r == procs[p] IN
  /\ r.pc = "j_saveUser"
  /\ \/ /\ users' = [users EXCEPT ![r.user].piBalance = IF r.fee = 0 THEN @ ELSE r.lbal]
        /\ ledger' = [ledger EXCEPT ![r.user] = @ - r.fee]
        /\ Continue(p, [r EXCEPT !.pc = "j_saveMatch", !.debited = TRUE,
                                 !.lpool = r.lpool + r.fee])
     \/ /\ Finish(p, r, "error")
        /\ UNCHANGED <<users, ledger>>
  /\ UNCHANGED <<matches, nreq, credits, paid, resultWrites, feed>>

JoinSaveMatch(p) ==
  LET r == procs[p] IN
  /\ r.pc = "j_saveMatch"
  /\ \/ /\ matches' = [matches EXCEPT ![r.match] =
             [@ EXCEPT !.pool = IF r.fee = 0 THEN @ ELSE r.lpool,
                       !.entries = Append(@, [userId |-> r.user, prediction |-> r.pred,
                                              entryFee |-> r.fee]),
                       !.v = @ + 1]]
        /\ Finish(p, [r EXCEPT !.appended = TRUE], "success")
     \/ /\ Finish(p, r, "error")
        /\ UNCHANGED matches
  /\ UNCHANGED <<users, nreq, Ghosts>>

\* ------------------------------------------------------------ settleMatch
SettleFindMatch(p, m) ==
  /\ Free(p)
  /\ nreq' = nreq + 1
  /\ LET r == [Idle EXCEPT !.kind = "settle", !.match = m]
     IN IF matches[m] = NoMatch
        THEN Finish(p, r, "threw")
        ELSE IF AlreadySettled(matches[m])
        THEN Finish(p, r, "ok")
        ELSE Continue(p, [r EXCEPT !.pc = "s_getResult", !.lpool = matches[m].pool,
                                   !.lentries = matches[m].entries])
  /\ UNCHANGED <<users, matches, Ghosts>>

\* the sports API answers with the scores it has now and whether the game is
\* over (lfinal, which the handler does not read), or the call fails
SettleGetResult(p) ==
  LET r == procs[p] IN
  /\ r.pc = "s_getResult"
  /\ \/ \E h \in Scores, a \in Scores, final \in BOOLEAN :
          Continue(p, [r EXCEPT !.pc = "s_saveMatch", !.lfinal = final,
                                !.lresult = ResultOf(SportOf(r.match), h, a)])
     \/ Finish(p, r, "threw")
  /\ UNCHANGED <<users, matches, nreq, Ghosts>>

SettleSaveMatch(p) ==
  LET r == procs[p]
      n == Len(Winners(r.lentries, r.lresult))
  IN
  /\ r.pc = "s_saveMatch"
  /\ \/ /\ matches' = [matches EXCEPT ![r.match].result = r.lresult]
        /\ resultWrites' = [resultWrites EXCEPT ![r.match] = @ + 1]
        /\ IF n = 0
           THEN Finish(p, [r EXCEPT !.wroteResult = TRUE, !.lfinal = TRUE], "ok")
           ELSE Continue(p, [r EXCEPT !.pc = "s_findUser", !.wroteResult = TRUE, !.i = 1,
                                      !.lfinal = TRUE,
                                      !.lpayout = PayoutPerWinner(r.lpool, n)])
     \/ /\ Finish(p, r, "threw")
        /\ UNCHANGED <<matches, resultWrites>>
  /\ UNCHANGED <<users, nreq, ledger, credits, paid, feed>>

SettleFindUser(p) ==
  LET r == procs[p]
      w == Winners(r.lentries, r.lresult)[r.i]
  IN
  /\ r.pc = "s_findUser"
  /\ Continue(p, [r EXCEPT !.pc = "s_saveUser", !.user = w.userId,
                           !.lbal = users[w.userId].piBalance + r.lpayout,
                           !.lwins = users[w.userId].wins + 1])
  /\ UNCHANGED <<users, matches, nreq, Ghosts>>

SettleSaveUser(p) ==
  LET r == procs[p]
      n == Len(Winners(r.lentries, r.lresult))
      k == WinnerIdx(r.lentries, r.lresult, 1)[r.i]
  IN
  /\ r.pc = "s_saveUser"
  /\ \/ /\ users' = [users EXCEPT ![r.user] =
             [@ EXCEPT !.piBalance = r.lbal, !.wins = r.lwins,
                       !.discountCodes = Append(@, Win10(r.lwins)), !.v = @ + 1]]
        /\ ledger' = [ledger EXCEPT ![r.user] = @ + r.lpayout]
        /\ credits' = [credits EXCEPT ![r.match][k] = @ + 1]
        /\ paid' = [paid EXCEPT ![r.match] = @ + r.lpayout]
        /\ IF r.i = n
           THEN Finish(p, [r EXCEPT !.ncredits = @ + 1], "ok")
           ELSE Continue(p, [r EXCEPT !.pc = "s_findUser", !.ncredits = @ + 1, !.i = @ + 1,
                                      !.user = "u0", !.lbal = 0, !.lwins = 0])
     \/ /\ Finish(p, r, "threw")
        /\ UNCHANGED <<users, ledger, credits, paid>>
  /\ UNCHANGED <<matches, nreq, resultWrites, feed>>

\* ------------------------------------------------------ POST /subscribe
SubscribeFindUser(p, u, code) ==
  /\ Free(p)
  /\ nreq' = nreq + 1
  /\ LET r == [Idle EXCEPT !.kind = "subscribe", !.user = u, !.code = code,
                           !.fee = SubscribeAmount(code)]
     IN IF u \notin Users
        THEN Finish(p, r, "User not found")
        ELSE IF Insufficient(users[u].piBalance, r.fee)
        THEN Finish(p, r, "Insufficient balance")
        ELSE LET kept == IF code # NoCode THEN FilterCode(users[u].discountCodes, code)
                                          ELSE users[u].discountCodes
             IN Continue(p, [r EXCEPT !.pc = "sub_save",
                                      !.lbal = users[u].piBalance - r.fee,
                                      !.lcodes = kept,
                                      !.lmod = (kept # users[u].discountCodes),
                                      !.lv = users[u].v])
  /\ UNCHANGED <<users, matches, Ghosts>>

SubscribeSave(p) ==
  LET r == procs[p] IN
  /\ r.pc = "sub_save"
  /\ \/ /\ r.lmod => users[r.user].v = r.lv
        /\ users' = [users EXCEPT ![r.user] =
             [@ EXCEPT !.piBalance = r.lbal, !.isPremium = TRUE,
                       !.discountCodes = IF r.lmod THEN r.lcodes ELSE @,
                       !.v = IF r.lmod THEN @ + 1 ELSE @]]
        /\ ledger' = [ledger EXCEPT ![r.user] = @ - r.fee]
        /\ Finish(p, [r EXCEPT !.debited = TRUE], "success")
     \/ /\ Finish(p, r, "error")
        /\ UNCHANGED <<users, ledger>>
  /\ UNCHANGED <<matches, nreq, credits, paid, resultWrites, feed>>

\* ---------------------------------------------------------- POST /refer
ReferFindUser(p, u) ==
  /\ Free(p)
  /\ nreq' = nreq + 1
  /\ LET r == [Idle EXCEPT !.kind = "refer", !.user = u]
     IN IF u \notin Users
        THEN Finish(p, r, "threw")
        ELSE Continue(p, [r EXCEPT !.pc = "r_save",
                                   !.lrefs = users[u].referrals + 1,
                                   !.lbal = users[u].piBalance + ReferBonus * Cent])
  /\ UNCHANGED <<users, matches, Ghosts>>

ReferSave(p) ==
  LET r == procs[p] IN
  /\ r.pc = "r_save"
  /\ \/ /\ users' = [users EXCEPT ![r.user] =
             [@ EXCEPT !.referrals = r.lrefs, !.piBalance = r.lbal]]
        /\ ledger' = [ledger EXCEPT ![r.user] = @ + ReferBonus * Cent]
        /\ Finish(p, r, "success")
     \/ /\ Finish(p, r, "threw")
        /\ UNCHANGED <<users, ledger>>
  /\ UNCHANGED <<matches, nreq, credits, paid, resultWrites, feed>>

\* every step of the server, with the join-challenge bodies and the dates of
\* the feeds drawn from the given sets
NextWith(joinInputs, dates) ==
  \/ \E m \in MatchIds, d \in dates : MatchesUpsert(m, d)
  \/ \E p \in Procs, u \in UserIds, m \in MatchIds, in \in joinInputs :
       JoinFindUser(p, u, m, in[1], in[2])
  \/ \E p \in Procs : JoinFindMatch(p)
  \/ \E p \in Procs : JoinSaveUser(p)
  \/ \E p \in Procs : JoinSaveMatch(p)
  \/ \E p \in Procs, m \in MatchIds : SettleFindMatch(p, m)
  \/ \E p \in Procs : SettleGetResult(p)
  \/ \E p \in Procs : SettleSaveMatch(p)
  \/ \E p \in Procs : SettleFindUser(p)
  \/ \E p \in Procs : SettleSaveUser(p)
  \/ \E p \in Procs, u \in UserIds, code \in CodeInputs : SubscribeFindUser(p, u, code)
  \/ \E p \in Procs : SubscribeSave(p)
  \/ \E p \in Procs, u \in UserIds : ReferFindUser(p, u)
  \/ \E p \in Procs : ReferSave(p)

\* well-formed join-challenge bodies, an event listed with one date
Next == NextWith(JoinInputs, FirstDate)
Spec == Init /\ [][Next]_vars

\* join-challenge bodies the handler does not validate
NextBadInput == NextWith(JoinInputs \cup BadJoinInputs, FirstDate)
SpecBadInput == Init /\ [][NextBadInput]_vars

\* an event whose listing changes between two GET /matches
NextFeed == NextWith(JoinInputs, Dates)
SpecFeed == Init /\ [][NextFeed]_vars

Exists(m) == matches[m] # NoMatch
Settled(m) == Exists(m) /\ matches[m].result # "pending"

\* C1: no user's piBalance is ever negative, and the debits saved against a
\* user never add up to more than the funds the user held (the start balance
\* plus the credits saved): two requests that read the same balance cannot
\* both spend it.
C1_NoOverdraft ==
  \A u \in Users : users[u].piBalance >= 0 /\ ledger[u] >= 0

\* C2: in every state, the pool of a match is the sum of the entry fees of
\* the entries recorded in it.
C2_PoolIsSumOfEntries ==
  \A m \in MatchIds : Exists(m) => matches[m].pool = SumFees(matches[m].entries)

\* C3: however many settleMatch calls run on a match, every entry is paid at
\* most once and the match leaves 'pending' at most once.
C3_SettledOnce ==
  \A m \in MatchIds :
    /\ resultWrites[m] <= 1
    /\ \A k \in 1..MaxRequests : credits[m][k] <= 1

\* C4: a join-challenge request that has ended has either saved both the
\* debit and the entry, or neither.
C4_JoinAtomic ==
  (last.kind = "join" /\ last.pc = "done") => (last.debited <=> last.appended)

\* C5: a settleMatch call that fails after it has the outcome has credited no
\* winner and has left the match pending.
C5_SettleAllOrNothing ==
  (last.kind = "settle" /\ last.resp = "threw" /\ last.lresult # "pending")
    => (last.ncredits = 0 /\ ~last.wroteResult)

\* C7: for every settled match, the house cut plus all the payouts saved for
\* it (by every settleMatch call) is at most its pool.
C7_PayoutsWithinPool ==
  \A m \in MatchIds : Settled(m) => HouseCut(matches[m].pool) + paid[m] <= matches[m].pool

\* round(total * 10%) and floor((total - houseCut) / n) in hundredths of a Pi
RoundedHouseCut(total) == (total + 5) \div 10
FloorPayout(total, n) == (total - RoundedHouseCut(total)) \div n

\* C8: the payout a settlement credits to each of its n >= 1 winners is
\* floor((total - round(total * 10%)) / n) hundredths of a Pi, a whole number
\* of hundredths.
C8_PayoutIsFloorOfShare ==
  \A p \in Procs :
    procs[p].pc \in {"s_findUser", "s_saveUser"} =>
      LET r == procs[p]
          n == Cardinality({k \in 1..Len(r.lentries) : r.lentries[k].prediction = r.lresult})
      IN /\ r.lpayout % Cent = 0
         /\ r.lpayout = FloorPayout(r.lpool \div Cent, n) * Cent

Untouched == UNCHANGED <<users, matches, ledger, credits, paid, resultWrites>>

\* C6: a settleMatch call on a match that is already settled returns at once
\* without an error, and changes no user, no match and no payout record.
C6_SettleIsIdempotent ==
  [][\A p \in Procs, m \in MatchIds :
       (SettleFindMatch(p, m) /\ Settled(m))
         => (procs'[p] = Idle /\ last'.resp = "ok" /\ Untouched)]_vars

\* C6 happens: a match was paid out and a later settleMatch call on it
\* returned at once
C6_Witness ==
  /\ last.kind = "settle" /\ last.resp = "ok"
  /\ ~last.wroteResult /\ last.lresult = "pending"
  /\ \E m \in MatchIds : Settled(m) /\ paid[m] > 0 /\ \A q \in Procs : procs[q].pc = "idle"

NoWinner(r) == \A k \in 1..Len(r.lentries) : r.lentries[k].prediction # r.lresult

\* C9: a settleMatch call whose outcome no entry predicted saves the result,
\* changes no user and ends; the match never is pending again, and a
\* settleMatch call that starts afterwards credits nobody.
C9_NoWinnerNoCredit ==
  /\ [][\A p \in Procs :
          (SettleSaveMatch(p) /\ NoWinner(procs[p]) /\ resultWrites' # resultWrites)
            => /\ users' = users /\ ledger' = ledger /\ credits' = credits /\ paid' = paid
               /\ procs'[p] = Idle /\ last'.resp = "ok"
               /\ matches'[procs[p].match].result = procs[p].lresult]_vars
  /\ [][\A m \in MatchIds : Settled(m) => matches'[m] # NoMatch /\ matches'[m].result # "pending"]_vars
  /\ [][\A p \in Procs, m \in MatchIds :
          (SettleFindMatch(p, m) /\ Settled(m)) => procs'[p] = Idle]_vars

\* C9 happens: a match with entries was settled with an outcome none of them
\* predicted, by a call that credited nobody
C9_Witness ==
  /\ last.kind = "settle" /\ last.resp = "ok" /\ last.wroteResult /\ last.ncredits = 0
  /\ \E m \in MatchIds :
       /\ Settled(m) /\ matches[m].entries # <<>> /\ paid[m] = 0
       /\ \A k \in 1..Len(matches[m].entries) :
            matches[m].entries[k].prediction # matches[m].result

\* C10: a join-challenge request on a pending match whose entryFee exceeds the
\* balance it read for its user ends with 'Insufficient balance' and changes
\* no user and no match.
C10_InsufficientRejected ==
  [][\A p \in Procs :
       (JoinFindMatch(p) /\ Exists(procs[p].match) /\ ~Settled(procs[p].match)
          /\ procs[p].fee > procs[p].lbal)
         => (procs'[p] = Idle /\ last'.kind = "join"
             /\ last'.resp = "Insufficient balance"
             /\ ~last'.debited /\ ~last'.appended /\ Untouched)]_vars

\* C10 happens: a join-challenge request was rejected for its balance
C10_Witness ==
  last.kind = "join" /\ last.resp = "Insufficient balance"

\* C11: a settleMatch call that is told the game is not over saves no result
\* and credits nobody: the match stays pending for a later call.
C11_UnfinishedSavesNothing ==
  [][\A p \in Procs :
       (SettleSaveMatch(p) /\ ~procs[p].lfinal)
         => (matches' = matches /\ users' = users)]_vars

\* C12: a settleMatch call whose outcome lookup fails changes no match, no
\* user and no payout record, and settleMatch on a match that is still pending
\* goes on to look the outcome up (a retry can settle it).
C12_LookupFailureChangesNothing ==
  /\ [][\A p \in Procs :
          (SettleGetResult(p) /\ procs'[p] = Idle)
            => (Untouched /\ last'.kind = "settle" /\ last'.resp = "threw"
                /\ ~last'.wroteResult /\ last'.ncredits = 0)]_vars
  /\ [][\A p \in Procs, m \in MatchIds :
          (SettleFindMatch(p, m) /\ Exists(m) /\ matches[m].result = "pending")
            => (procs'[p].pc = "s_getResult" /\ procs'[p].match = m)]_vars

\* C12 happens: a lookup failed on a match with entries, the match is still
\* pending and no call is in flight
C12_Witness ==
  /\ last.kind = "settle" /\ last.resp = "threw" /\ ~last.wroteResult
  /\ \A q \in Procs : procs[q].pc = "idle"
  /\ \E m \in MatchIds :
       Exists(m) /\ matches[m].result = "pending" /\ matches[m].entries # <<>>

\* C13: in every state, no user has two entries in the same match.
C13_OneEntryPerUser ==
  \A m \in MatchIds : Exists(m) =>
    \A j, k \in 1..Len(matches[m].entries) :
      matches[m].entries[j].userId = matches[m].entries[k].userId => j = k

\* C14: a subscribe request that names a code goes on to its debit only if
\* the code was among its user's discountCodes when the request read them.
C14_OnlyHeldCodes ==
  \A p \in Procs :
    (procs[p].kind = "subscribe" /\ procs[p].pc = "sub_save" /\ procs[p].code # NoCode)
      => procs[p].lmod

\* C15: when no request is in flight, every user's piBalance is the start
\* balance minus the debits that were saved plus the credits that were saved.
C15_BalanceIsLedger ==
  (\A p \in Procs : procs[p].pc = "idle")
    => \A u \in Users : users[u].piBalance = ledger[u]

\* C16: once the result of a match is not 'pending', no step changes it.
C16_ResultIsFinal ==
  [][\A m \in MatchIds :
       Settled(m) => (matches'[m] # NoMatch /\ matches'[m].result = matches[m].result)]_vars

\* C18: once the result of a match is not 'pending', no step changes its
\* entries or its pool.
C18_NoEntryAfterSettlement ==
  [][\A m \in MatchIds :
       Settled(m) => (matches'[m] # NoMatch
                      /\ matches'[m].entries = matches[m].entries
                      /\ matches'[m].pool = matches[m].pool)]_vars

\* C19: no user's discountCodes holds the same code twice.
C19_CodesAreUnique ==
  \A u \in Users :
    \A j, k \in 1..Len(users[u].discountCodes) :
      users[u].discountCodes[j] = users[u].discountCodes[k] => j = k

OutcomeLabels == {"home", "away", "draw"}
ValidBody(pred, fee) == pred \in OutcomeLabels /\ fee > 0

\* C17: a join-challenge request whose prediction is no outcome label or
\* whose entryFee is not positive has no side effect: no such request gets
\* its save of the user through, and no such entry is recorded.
C17_InvalidBodyRejected ==
  /\ \A p \in Procs :
       (procs[p].kind = "join" /\ procs[p].debited) => ValidBody(procs[p].pred, procs[p].fee)
  /\ \A m \in MatchIds : Exists(m) =>
       \A k \in 1..Len(matches[m].entries) :
         ValidBody(matches[m].entries[k].prediction, matches[m].entries[k].entryFee)

\* C20: GET /matches on an event the collection already has sets its
\* descriptive fields and leaves its result, pool and entries, and every user,
\* as they were.
C20_UpsertKeepsStakes ==
  [][\A m \in MatchIds, d \in Dates :
       (MatchesUpsert(m, d) /\ Exists(m))
         => /\ matches'[m] # NoMatch
            /\ matches'[m].date = d
            /\ matches'[m].sport = SportOf(m)
            /\ matches'[m].result = matches[m].result
            /\ matches'[m].pool = matches[m].pool
            /\ matches'[m].entries = matches[m].entries
            /\ users' = users]_vars

\* C20 happens: a settled match with entries was listed again with the other
\* date, after the requests that staked on it and settled it had ended
C20_Witness ==
  /\ last.kind = "matches" /\ last.resp = "refreshed"
  /\ \A q \in Procs : procs[q].pc = "idle"
  /\ \E m \in MatchIds :
       Settled(m) /\ matches[m].entries # <<>> /\ matches[m].pool > 0 /\ matches[m].date = 2
====
